---- MODULE Spec2Model ----
(***************************************************************************)
(* monGARS model factory: the run-all orchestration of                     *)
(* mongars_factory_cli.py (stage sequencing, the process runner, the run   *)
(* summary, the exit status), the environment composer, and the dataset    *)
(* engine scripts/dataset_prep.py (dedup state, per-entry iteration, the   *)
(* corpus).                                                                *)
(***************************************************************************)
EXTENDS Integers, Sequences, FiniteSets, TLC

\* Seconds a child may be observed for (the clock stops there).
MaxClock == 2
\* The timeout_seconds value a stage section may configure.
TimeoutSeconds == 1
\* Output lines one child writes at most.
MaxLines == 1
\* Rows a source dataset holds at most.
MaxRows == 2
\* Largest max_examples / --max_per_dataset value.
MaxCap == 2
\* Dataset-engine runs against one output directory.
MaxRuns == 3

\* Python's Optional[...]: None is the empty tuple, a value x is <<x>>.
None == <<>>
Some(x) == <<x>>

IsPrefix(s, t) == Len(s) <= Len(t) /\ SubSeq(t, 1, Len(s)) = s

VARIABLES
    cfg,          \* FactoryConfig: the parsed stage descriptors
    command,      \* the CLI command invoked
    task,         \* run-sft's --task option, None when omitted
    run_dir,      \* _start_run_dir has created the run directory
    console,      \* the child output lines echoed during the current call
    dry_run,      \* the --dry-run option
    pc,           \* where the orchestrator process is
    slot,         \* index into Topology of the slot being handled
    taskIdx,      \* index of the next unsloth task in cfg.unsloth.tasks
    current,      \* name of the stage/task of the latest run_stage call
    timeout,      \* timeout handed to _run_subprocess for the current call
    child,        \* the child process: "none", "running", "exited", "killed"
    returncode,   \* proc.returncode
    stdoutOpen,   \* the child's end of the output pipe is open
    clock,        \* seconds since _run_subprocess took its start time
    waitFrom,     \* clock value at which proc.wait(timeout) was called
    logFile,      \* content of the current stage's log file
    files,        \* dataset-engine files written during this invocation
    spawned,      \* names of the children spawned, in spawn order
    results,      \* how each spawned child ended, in the same order
    live,         \* the children alive, by their index in spawned
    summary,      \* the in-memory summary rows
    summaryFile,  \* the documents written to run_dir/summary.json
    exit_code,    \* cli_run_all's exit_code local
    exitStatus,   \* the process exit status, None while running
    elapsed,      \* value returned by the latest run_stage/run_unsloth_task
    raised,       \* the exception that escaped, "none" if none
    osEnviron,    \* os.environ of the orchestrator
    rawGlobalEnv, \* global_env as written in the configuration file
    model_profile,\* model_profile of the configuration
    globalEnv,    \* FactoryConfig.global_env
    groupEnv,     \* the stage's env, or the unsloth group's env
    taskEnv,      \* the unsloth task's env
    childEnv,     \* the environment handed to Popen
    envPc,        \* position of the environment composition
    dcfg,         \* PrepConfig: langs, max_per_dataset, seed
    metadata,     \* the dataset entries of the manifest, with their sources
    stateFile,    \* dedup_state.json on disk
    corpus,       \* mongars_corpus.jsonl on disk, one element per line
    dpc,          \* where the dataset engine is
    seen_hashes,  \* DedupState.seen_hashes
    entryIdx,     \* index of the entry of the `for entry in entries` loop
    pending,      \* what the entry's generator has still to yield
    total_seen,   \* prepare_datasets' counters
    total_written,
    total_skipped_dup,
    rng,          \* state of the `random` module generator
    runNo,        \* dataset-engine runs started so far
    fileAtStart,  \* stateFile as it was when the current run started
    corpusAtStart,\* corpus as it was when the current run started
    startHashes,  \* hashes that were in stateFile at the start of some run
    prevCompleted,\* the run before the current one ran to completion
    dataExit,     \* main()'s return value, None while running
    stageArgs,    \* the keys of the datasets stage's args mapping, in order
    argv,         \* the flags _dict_to_cli_args generated
    parsed        \* how the dataset engine's parser took argv, None before

orchVars == <<cfg, command, task, dry_run, run_dir, console, pc, slot, taskIdx, current, timeout,
              child, returncode, stdoutOpen, clock, waitFrom, logFile, files,
              spawned, results, live, summary, summaryFile, exit_code, exitStatus, elapsed, raised>>
envVars == <<osEnviron, rawGlobalEnv, model_profile, globalEnv, groupEnv, taskEnv,
             childEnv, envPc>>
dataVars == <<dcfg, metadata, stateFile, corpus, dpc, seen_hashes, entryIdx, pending,
              total_seen, total_written, total_skipped_dup, rng, runNo, fileAtStart,
              corpusAtStart, startHashes, prevCompleted, dataExit>>
cliVars == <<stageArgs, argv, parsed>>
vars == <<orchVars, envVars, dataVars, cliVars>>

----------------------------------------------------------------------------
(* Configuration *)

TaskNames == {"dialog", "reasoning"}

\* Task mappings: dicts keep insertion order and their keys are unique.
TaskSeqs == {<<>>} \cup {<<a>> : a \in TaskNames}
            \cup {s \in TaskNames \X TaskNames : s[1] # s[2]}

StageConfig(en, ex, to) == [enabled |-> en, script_exists |-> ex, timeout_seconds |-> to]

\* _parse_stage_config: None for a missing section, else a StageConfig.
StageInputs ==
    { None,
      Some(StageConfig(FALSE, TRUE, None)),
      Some(StageConfig(TRUE, FALSE, None)),
      Some(StageConfig(TRUE, TRUE, None)),
      Some(StageConfig(TRUE, TRUE, Some(TimeoutSeconds))) }

UnslothConfig(en, ex, ts) == [enabled |-> en, script_exists |-> ex, tasks |-> ts]

\* _parse_unsloth_config: None for a missing section, else an UnslothConfig.
UnslothInputs ==
    { None,
      Some(UnslothConfig(FALSE, TRUE, <<"dialog", "reasoning">>)),
      Some(UnslothConfig(TRUE, FALSE, <<"dialog">>)) }
    \cup { Some(UnslothConfig(TRUE, TRUE, ts)) : ts \in TaskSeqs }

\* Mutant of Topology: the unsloth group is handled before embeddings.
TopologySwapped == <<"datasets", "unsloth", "embeddings", "export", "mlc_export">>

\* The fixed order of cli_run_all's calls.
Topology == <<"datasets", "embeddings", "unsloth", "export", "mlc_export">>

Commands == {"run-all", "run-datasets", "run-embeddings", "run-sft", "run-export"}

\* The stage calls each command makes, in order ("unsloth" is the task loop).
Calls(cmd) ==
    CASE cmd = "run-all" -> Topology
      [] cmd = "run-datasets" -> <<"datasets">>
      [] cmd = "run-embeddings" -> <<"embeddings">>
      [] cmd = "run-sft" -> <<"unsloth">>
      [] cmd = "run-export" -> <<"export", "mlc_export">>

\* Mutant of Required: every slot is required.
RequiredAlways(name) == TRUE

\* Mutant of Rejected: the single commands make no check before their calls.
RejectedNever(cmd) == FALSE

\* Mutant of Required: no slot is required.
RequiredNever(name) == FALSE

\* _record_stage(..., required=True) is passed for mlc_export only.
Required(name) == name = "mlc_export"

\* `stage_cfg is not None and stage_cfg.enabled`, the test of _record_stage and
\* of _handle_unsloth.
Runs(stage_cfg) == IF stage_cfg = None THEN FALSE ELSE stage_cfg[1].enabled

\* The summary name of an unsloth task, f"unsloth:{name}".
TaskLabel(t) == IF t = "dialog" THEN "unsloth:dialog" ELSE "unsloth:reasoning"

----------------------------------------------------------------------------
(* The environment composer *)

\* The fixed key of the build-profile marker.
ProfileKey == "MONGARS_MODEL_PROFILE"

EnvKeys == {ProfileKey, "HF_HOME"}
\* Values a layer may give a key; a configuration may give the empty string.
EnvValues == {"x", ""}
Profiles == {"monGARS_webLLM", "x"}

\* model_profile as the configuration file may write it.
RawProfiles == Profiles \cup {" x ", " ", ""}

\* str.strip() on the profile labels above.
strip_profile(p) ==
    CASE p = " x " -> "x"
      [] p = " " -> ""
      [] OTHER -> p

\* Mutant of ProfileRejected: an empty model_profile is accepted.
ProfileNeverRejected(p) == FALSE

\* load_factory_config: `if not model_profile: raise ValueError(...)`.
ProfileRejected(p) == p = ""

\* A dict is a function from the keys it sets.
EmptyDict == [k \in {} |-> "x"]
Dicts == UNION {[D -> EnvValues] : D \in SUBSET EnvKeys}

\* Python's `a | b` and {**a, **b}: the keys of both, b's value where both set one.
Merge(a, b) ==
    [k \in DOMAIN a \cup DOMAIN b |-> IF k \in DOMAIN b THEN b[k] ELSE a[k]]

\* dict.setdefault(key, value): set only if the key is absent.
SetDefault(d, key, value) ==
    IF key \in DOMAIN d THEN d ELSE Merge(d, [k \in {key} |-> value])

\* Mutant of load_global_env: the marker is not forced into global_env.
load_global_env_unforced(raw, profile) == raw

\* load_factory_config: global_env of the file, then
\* global_env["MONGARS_MODEL_PROFILE"] = model_profile.
load_global_env(raw, profile) == Merge(raw, [k \in {ProfileKey} |-> profile])

\* _build_env: os.environ, then global_env, then extra, then the marker by
\* setdefault; an empty dict or an empty profile skips its step.
build_env(environ, global_env, extra, profile) ==
    LET m0 == environ
        m1 == IF global_env # EmptyDict THEN Merge(m0, global_env) ELSE m0
        m2 == IF extra # EmptyDict THEN Merge(m1, extra) ELSE m1
    IN  IF profile # "" THEN SetDefault(m2, ProfileKey, profile) ELSE m2

\* Mutant of task_extra: the group's value wins over the task's.
task_extra_group_wins(group_env, task_env) == Merge(task_env, group_env)

\* run_unsloth_task: extra={**cfg.env, **task_cfg.env}.
task_extra(group_env, task_env) == Merge(group_env, task_env)

----------------------------------------------------------------------------
(* The process runner and the stage runners *)

runnerVars == <<timeout, child, returncode, stdoutOpen, clock, waitFrom>>
histVars == <<spawned, results, live>>

\* An exception escapes cli_run_all: nothing after the raising call runs and
\* the interpreter ends the process with status 1.
Raise(exc) ==
    /\ pc' = "exited"
    /\ raised' = exc
    /\ exitStatus' = Some(1)

\* Mutant of Reaped: a child that ended still counts as alive.
NotReaped(alive, id) == alive

\* The child with index id has exited, or was killed by proc.kill().
Reaped(alive, id) == alive \ {id}

\* Mutant of DryRunReturns: the dry-run flag is ignored.
DryRunIgnored(dr) == FALSE

\* _run_subprocess: `if dry_run: return 0.0`, before the log is opened.
DryRunReturns(dr) == dr

\* How a child that exited ended: Failed is a non-zero exit code.
ChildOutcome(rc) == IF rc = 0 THEN "Succeeded" ELSE "Failed"

\* Mutant of ReturncodeRaises: a non-zero return code is not an error.
ReturncodeIgnored(rc) == FALSE

\* _run_subprocess: `if proc.returncode != 0: raise CalledProcessError`.
ReturncodeRaises(rc) == rc # 0

\* Mutant of ExitStatusAtEnd: cli_run_all always returns normally.
ExitStatusAlwaysZero(code) == 0

\* cli_run_all: `if exit_code: raise typer.Exit(code=exit_code)`, else status 0.
ExitStatusAtEnd(code) == IF code # 0 THEN code ELSE 0

\* proc.wait(timeout=timeout) raises TimeoutExpired once `timeout` seconds have
\* passed since the wait began with the child still running.
WaitExpired(to, now, from) == to # None /\ now - from >= to[1]

\* The tasks of the unsloth group, <<>> when the group is not configured.
Tasks == IF cfg.unsloth = None THEN <<>> ELSE cfg.unsloth[1].tasks

\* After a stage or task was recorded: the next task of the group's loop, or
\* the next call of the command (run-sft --task runs one task only).
Advance ==
    IF Calls(command)[slot] = "unsloth" /\ task = None /\ taskIdx < Len(Tasks)
    THEN /\ taskIdx' = taskIdx + 1
         /\ slot' = slot
    ELSE /\ taskIdx' = 1
         /\ slot' = slot + 1

\* summary.append({"name": ..., "status": "ran", ...}) of _record_stage and
\* _handle_unsloth.
RanRow(label) == [name |-> label, status |-> "ran", note |-> "log"]

\* The entry the single-stage commands, run-sft and run-export keep for a
\* call: its name and its log file.
LogRow(label) == [name |-> label, note |-> "log"]

\* What the command records for a call that returned.
Recorded(label) == IF command = "run-all" THEN RanRow(label) ELSE LogRow(label)

\* summary.append({... "status": "skipped" ...}).
SkippedRow(label, why) == [name |-> label, status |-> "skipped", note |-> why]

\* Mutant of task_timeout: the task is given a timeout.
task_timeout_set(unsloth_cfg) == Some(TimeoutSeconds)

\* run_unsloth_task hands _run_subprocess no timeout: its default, None.
task_timeout(unsloth_cfg) == None

\* Mutant of log_write: the echoed line is not written to the log.
log_skip(log, line) == log

\* `log_f.write(line)` of the echo loop.
log_write(log, line) == Append(log, line)

\* run_stage / run_unsloth_task once the stage is known to be enabled:
\* _ensure_script_exists, then _run_subprocess up to the Popen call.
Invoke(label, script_exists, to) ==
    /\ current' = label
    /\ IF ~script_exists
       THEN /\ Raise("FileNotFoundError")
            /\ elapsed' = None
            /\ UNCHANGED <<slot, taskIdx, timeout, clock, waitFrom, logFile, console,
                           summary>>
       ELSE IF DryRunReturns(dry_run)
       THEN /\ elapsed' = Some(0)
            /\ summary' = Append(summary, Recorded(label))
            /\ Advance
            /\ UNCHANGED <<pc, raised, exitStatus, timeout, clock, waitFrom, logFile,
                           console>>
       ELSE /\ elapsed' = None
            /\ timeout' = to
            /\ clock' = 0
            /\ waitFrom' = 0
            /\ logFile' = <<"# Started">>
            /\ console' = <<>>
            /\ pc' = "popen"
            /\ UNCHANGED <<slot, taskIdx, raised, exitStatus, summary>>
    /\ UNCHANGED <<cfg, command, task, dry_run, child, returncode, stdoutOpen, files,
                   histVars, summaryFile, exit_code>>

\* _record_stage with a configured and enabled stage: run_stage.
record_stage_run ==
    /\ command = "run-all"
    /\ pc = "orchestrate"
    /\ slot \in 1..Len(Topology)
    /\ Topology[slot] # "unsloth"
    /\ LET name == Topology[slot]
           stage_cfg == cfg[name]
       IN  /\ Runs(stage_cfg)
           /\ Invoke(name, stage_cfg[1].script_exists, stage_cfg[1].timeout_seconds)
    /\ UNCHANGED run_dir
    /\ UNCHANGED <<envVars, dataVars, cliVars>>

\* _record_stage with an absent or disabled stage.
record_stage_skip ==
    /\ command = "run-all"
    /\ pc = "orchestrate"
    /\ slot \in 1..Len(Topology)
    /\ Topology[slot] # "unsloth"
    /\ LET name == Topology[slot]
           stage_cfg == cfg[name]
           note == IF stage_cfg # None THEN "disabled" ELSE "not configured"
       IN  /\ ~Runs(stage_cfg)
           /\ exit_code' = IF Required(name) THEN 1 ELSE exit_code
           /\ summary' = Append(summary, SkippedRow(name, note))
    /\ slot' = slot + 1
    /\ UNCHANGED <<cfg, command, task, dry_run, run_dir, console, pc, taskIdx, current, runnerVars, logFile, files,
                   histVars, summaryFile, exitStatus, elapsed, raised>>
    /\ UNCHANGED <<envVars, dataVars, cliVars>>

\* _handle_unsloth, one iteration of its loop: run_unsloth_task, which hands
\* no timeout to _run_subprocess.
handle_unsloth_task ==
    /\ command = "run-all"
    /\ pc = "orchestrate"
    /\ slot \in 1..Len(Topology)
    /\ Topology[slot] = "unsloth"
    /\ Runs(cfg.unsloth)
    /\ taskIdx \in 1..Len(Tasks)
    /\ Invoke(TaskLabel(Tasks[taskIdx]), cfg.unsloth[1].script_exists,
              task_timeout(cfg.unsloth[1]))
    /\ UNCHANGED run_dir
    /\ UNCHANGED <<envVars, dataVars, cliVars>>

\* _handle_unsloth when the group is absent, disabled or has no tasks.
handle_unsloth_skip ==
    /\ command = "run-all"
    /\ pc = "orchestrate"
    /\ slot \in 1..Len(Topology)
    /\ Topology[slot] = "unsloth"
    /\ \/ /\ cfg.unsloth = None
          /\ summary' = Append(summary, SkippedRow("unsloth", "not configured"))
       \/ /\ cfg.unsloth # None
          /\ ~Runs(cfg.unsloth)
          /\ summary' = Append(summary, SkippedRow("unsloth", "disabled"))
       \/ /\ Runs(cfg.unsloth)
          /\ Tasks = <<>>
          /\ summary' = Append(summary, SkippedRow("unsloth", "no tasks"))
    /\ slot' = slot + 1
    /\ UNCHANGED <<cfg, command, task, dry_run, run_dir, console, pc, taskIdx, current, runnerVars, logFile, files,
                   histVars, summaryFile, exit_code, exitStatus, elapsed, raised>>
    /\ UNCHANGED <<envVars, dataVars, cliVars>>

\* The index in Tasks of the task run-sft handles next: the --task one, or the
\* loop's.
TaskIndex ==
    IF task = None THEN taskIdx
    ELSE CHOOSE i \in 1..Len(Tasks) : Tasks[i] = task[1]

\* The checks a single command makes before its first call: a missing
\* section, run-export's mlc_export requirement, run-sft's unknown --task.
Rejected(cmd) ==
    CASE cmd = "run-datasets" -> cfg.datasets = None
      [] cmd = "run-embeddings" -> cfg.embeddings = None
      [] cmd = "run-export" -> cfg.export = None \/ ~Runs(cfg.mlc_export)
      [] cmd = "run-sft" ->
            \/ cfg.unsloth = None
            \/ /\ Tasks # <<>>
               /\ task # None
               /\ \A i \in 1..Len(Tasks) : Tasks[i] # task[1]
      [] OTHER -> FALSE

\* `raise typer.Exit(code=1)` of a single command's checks; only cli_run_sft's
\* unknown --task check comes after _start_run_dir.
command_rejected ==
    /\ command # "run-all"
    /\ pc = "orchestrate"
    /\ slot = 1
    /\ Rejected(command)
    /\ exitStatus' = Some(1)
    /\ pc' = "exited"
    /\ run_dir' = (command = "run-sft" /\ cfg.unsloth # None)
    /\ UNCHANGED <<cfg, command, task, dry_run, console, slot, taskIdx, current,
                   runnerVars, logFile, files, histVars, summary, summaryFile,
                   exit_code, elapsed, raised>>
    /\ UNCHANGED <<envVars, dataVars, cliVars>>

\* run_stage as cli_run_datasets, cli_run_embeddings and cli_run_export call
\* it: a disabled stage returns 0.0 at once and the command goes on.
run_stage_call ==
    /\ command \in {"run-datasets", "run-embeddings", "run-export"}
    /\ pc = "orchestrate"
    /\ ~Rejected(command)
    /\ slot \in 1..Len(Calls(command))
    /\ LET name == Calls(command)[slot]
           stage_cfg == cfg[name]
       IN  IF Runs(stage_cfg)
           THEN Invoke(name, stage_cfg[1].script_exists, stage_cfg[1].timeout_seconds)
           ELSE /\ elapsed' = Some(0)
                /\ summary' = Append(summary, Recorded(name))
                /\ slot' = slot + 1
                /\ UNCHANGED <<cfg, command, task, dry_run, console, pc, taskIdx,
                               current, runnerVars, logFile, files, histVars,
                               summaryFile, exit_code, exitStatus, raised>>
    /\ run_dir' = TRUE
    /\ UNCHANGED <<envVars, dataVars, cliVars>>

\* run_unsloth_task as cli_run_sft calls it, for the --task task or for the
\* next task of the loop: a disabled group returns 0.0 at once.
run_sft_task ==
    /\ command = "run-sft"
    /\ pc = "orchestrate"
    /\ ~Rejected(command)
    /\ slot = 1
    /\ Tasks # <<>>
    /\ LET label == TaskLabel(Tasks[TaskIndex])
       IN  IF Runs(cfg.unsloth)
           THEN Invoke(label, cfg.unsloth[1].script_exists,
                       task_timeout(cfg.unsloth[1]))
           ELSE /\ elapsed' = Some(0)
                /\ summary' = Append(summary, Recorded(label))
                /\ Advance
                /\ UNCHANGED <<cfg, command, task, dry_run, console, pc, current,
                               runnerVars, logFile, files, histVars, summaryFile,
                               exit_code, exitStatus, raised>>
    /\ run_dir' = TRUE
    /\ UNCHANGED <<envVars, dataVars, cliVars>>

\* cli_run_sft with an empty task mapping: nothing to run, the summary is
\* written with no task.
run_sft_no_tasks ==
    /\ command = "run-sft"
    /\ pc = "orchestrate"
    /\ ~Rejected(command)
    /\ slot = 1
    /\ Tasks = <<>>
    /\ slot' = slot + 1
    /\ run_dir' = TRUE
    /\ UNCHANGED <<cfg, command, task, dry_run, console, pc, taskIdx, current, runnerVars,
                   logFile, files, histVars, summary, summaryFile, exit_code,
                   exitStatus, elapsed, raised>>
    /\ UNCHANGED <<envVars, dataVars, cliVars>>

\* subprocess.Popen(...) starts the child.
Popen ==
    /\ pc = "popen"
    /\ child' = "running"
    /\ stdoutOpen' = TRUE
    /\ returncode' = None
    /\ spawned' = Append(spawned, current)
    /\ live' = live \cup {Len(spawned) + 1}
    /\ pc' = "drain"
    /\ UNCHANGED <<cfg, command, task, dry_run, run_dir, console, slot, taskIdx, current, timeout, clock, waitFrom,
                   logFile, files, results, summary, summaryFile, exit_code,
                   exitStatus, elapsed, raised>>
    /\ UNCHANGED <<envVars, dataVars, cliVars>>

\* subprocess.Popen(...) raises OSError: the finally block closes the log and
\* the exception escapes.
PopenFails ==
    /\ pc = "popen"
    /\ logFile' = Append(logFile, "# Finished")
    /\ Raise("OSError")
    /\ UNCHANGED <<cfg, command, task, dry_run, run_dir, console, slot, taskIdx, current, runnerVars, files,
                   histVars, summary, summaryFile, exit_code, elapsed>>
    /\ UNCHANGED <<envVars, dataVars, cliVars>>

\* The child writes a line; `for line in proc.stdout` echoes it and appends it
\* to the log.
ChildWrites ==
    /\ pc = "drain"
    /\ child = "running"
    /\ stdoutOpen
    /\ Len(console) < MaxLines
    /\ LET line == ToString(Len(console) + 1)
       IN  /\ console' = Append(console, line)
           /\ logFile' = log_write(logFile, line)
    /\ UNCHANGED <<cfg, command, task, dry_run, run_dir, pc, slot, taskIdx, current, runnerVars, files,
                   histVars, summary, summaryFile, exit_code, exitStatus, elapsed,
                   raised>>
    /\ UNCHANGED <<envVars, dataVars, cliVars>>

\* The child closes its output stream and keeps running.
ChildClosesStdout ==
    /\ child = "running"
    /\ stdoutOpen
    /\ stdoutOpen' = FALSE
    /\ UNCHANGED <<cfg, command, task, dry_run, run_dir, console, pc, slot, taskIdx, current, timeout, child,
                   returncode, clock, waitFrom, logFile, files, histVars, summary,
                   summaryFile, exit_code, exitStatus, elapsed, raised>>
    /\ UNCHANGED <<envVars, dataVars, cliVars>>

\* The datasets child is the dataset engine: prepare_datasets opens the corpus
\* for appending, and saves the dedup state after its loop.
DatasetsChildWrites ==
    /\ child = "running"
    /\ current = "datasets"
    /\ \/ /\ "corpus" \notin files
          /\ files' = files \cup {"corpus"}
       \/ /\ "corpus" \in files
          /\ "dedup_state" \notin files
          /\ files' = files \cup {"dedup_state"}
    /\ UNCHANGED <<cfg, command, task, dry_run, run_dir, console, pc, slot, taskIdx, current, runnerVars, logFile,
                   histVars, summary, summaryFile, exit_code, exitStatus, elapsed,
                   raised>>
    /\ UNCHANGED <<envVars, dataVars, cliVars>>

\* The child exits with a return code, which closes its output stream. The
\* dataset engine's main returns 0 only after prepare_datasets has finished.
ChildExits ==
    /\ child = "running"
    /\ \E rc \in {0, 1} :
          /\ (current = "datasets" /\ rc = 0) => files = {"corpus", "dedup_state"}
          /\ returncode' = Some(rc)
    /\ child' = "exited"
    /\ live' = Reaped(live, Len(spawned))
    /\ stdoutOpen' = FALSE
    /\ UNCHANGED <<cfg, command, task, dry_run, run_dir, console, pc, slot, taskIdx, current, timeout, clock,
                   waitFrom, logFile, files, spawned, results, summary, summaryFile,
                   exit_code, exitStatus, elapsed, raised>>
    /\ UNCHANGED <<envVars, dataVars, cliVars>>

\* A second passes while the child runs. Inside proc.wait(timeout) time does
\* not pass beyond the expiry without the wait raising.
Tick ==
    /\ child = "running"
    /\ clock < MaxClock
    /\ pc = "wait" => ~WaitExpired(timeout, clock, waitFrom)
    /\ clock' = clock + 1
    /\ UNCHANGED <<cfg, command, task, dry_run, run_dir, console, pc, slot, taskIdx, current, timeout, child,
                   returncode, stdoutOpen, waitFrom, logFile, files, histVars,
                   summary, summaryFile, exit_code, exitStatus, elapsed, raised>>
    /\ UNCHANGED <<envVars, dataVars, cliVars>>

\* `for line in proc.stdout` ends at end of file; proc.wait(timeout) begins.
DrainEOF ==
    /\ pc = "drain"
    /\ ~stdoutOpen
    /\ pc' = "wait"
    /\ waitFrom' = clock
    /\ UNCHANGED <<cfg, command, task, dry_run, run_dir, console, slot, taskIdx, current, timeout, child, returncode,
                   stdoutOpen, clock, logFile, files, histVars, summary,
                   summaryFile, exit_code, exitStatus, elapsed, raised>>
    /\ UNCHANGED <<envVars, dataVars, cliVars>>

\* proc.wait returns: the return code is checked, the finally block closes the
\* log, and on success the caller records the stage and goes on.
WaitReturns ==
    /\ pc = "wait"
    /\ child = "exited"
    /\ logFile' = Append(logFile, "# Finished")
    /\ results' = Append(results, ChildOutcome(returncode[1]))
    /\ IF ReturncodeRaises(returncode[1])
       THEN /\ Raise("CalledProcessError")
            /\ UNCHANGED <<slot, taskIdx, summary, elapsed>>
       ELSE /\ elapsed' = Some(clock)
            /\ summary' = Append(summary, Recorded(current))
            /\ Advance
            /\ pc' = "orchestrate"
            /\ UNCHANGED <<raised, exitStatus>>
    /\ UNCHANGED <<cfg, command, task, dry_run, run_dir, console, current, runnerVars, files, spawned, live,
                   summaryFile, exit_code>>
    /\ UNCHANGED <<envVars, dataVars, cliVars>>

\* proc.wait raises TimeoutExpired: proc.kill(), the finally block closes the
\* log, and the exception escapes.
WaitTimesOut ==
    /\ pc = "wait"
    /\ child = "running"
    /\ WaitExpired(timeout, clock, waitFrom)
    /\ child' = "killed"
    /\ live' = Reaped(live, Len(spawned))
    /\ results' = Append(results, "TimedOut")
    /\ logFile' = Append(logFile, "# Finished")
    /\ Raise("TimeoutExpired")
    /\ UNCHANGED <<cfg, command, task, dry_run, run_dir, console, slot, taskIdx, current, timeout, returncode,
                   stdoutOpen, clock, waitFrom, files, spawned, summary,
                   summaryFile, exit_code, elapsed>>
    /\ UNCHANGED <<envVars, dataVars, cliVars>>

\* The end of a command: _write_run_summary; cli_run_all then raises
\* typer.Exit(exit_code) when exit_code is set; else a normal return.
finish ==
    /\ pc = "orchestrate"
    /\ slot = Len(Calls(command)) + 1
    /\ summaryFile' = Append(summaryFile, [command |-> command, stages |-> summary])
    /\ exitStatus' = Some(ExitStatusAtEnd(exit_code))
    /\ pc' = "exited"
    /\ UNCHANGED <<cfg, command, task, dry_run, run_dir, console, slot, taskIdx, current, runnerVars, logFile, files,
                   histVars, summary, exit_code, elapsed, raised>>
    /\ UNCHANGED <<envVars, dataVars, cliVars>>

\* No environment is composed in the orchestration specification.
\* No argument list is generated in this specification.
CliIdle ==
    /\ stageArgs = <<>>
    /\ argv = <<>>
    /\ parsed = None

\* The dataset engine is not part of this specification.
DataIdle ==
    /\ dcfg = [langs |-> {}, max_per_dataset |-> 0, seed |-> 0]
    /\ metadata = <<>>
    /\ stateFile = [kind |-> "absent", hashes |-> {}]
    /\ corpus = <<>>
    /\ dpc = "off"
    /\ seen_hashes = {}
    /\ entryIdx = 0
    /\ pending = <<>>
    /\ total_seen = 0
    /\ total_written = 0
    /\ total_skipped_dup = 0
    /\ rng = 0
    /\ runNo = 0
    /\ fileAtStart = [kind |-> "absent", hashes |-> {}]
    /\ corpusAtStart = <<>>
    /\ startHashes = {}
    /\ prevCompleted = FALSE
    /\ dataExit = None

EnvIdle ==
    /\ osEnviron = EmptyDict
    /\ rawGlobalEnv = EmptyDict
    /\ model_profile = "monGARS_webLLM"
    /\ globalEnv = EmptyDict
    /\ groupEnv = EmptyDict
    /\ taskEnv = EmptyDict
    /\ childEnv = EmptyDict
    /\ envPc = "off"

\* The locals of cli_run_all after load_factory_config and _start_run_dir.
OrchStart ==
    /\ pc = "orchestrate"
    /\ slot = 1
    /\ taskIdx = 1
    /\ current = "none"
    /\ timeout = None
    /\ child = "none"
    /\ returncode = None
    /\ stdoutOpen = FALSE
    /\ clock = 0
    /\ waitFrom = 0
    /\ logFile = <<>>
    /\ files = {}
    /\ spawned = <<>>
    /\ results = <<>>
    /\ live = {}
    /\ console = <<>>
    /\ summary = <<>>
    /\ summaryFile = <<>>
    /\ exit_code = 0
    /\ exitStatus = None
    /\ elapsed = None
    /\ raised = "none"

\* cli_run_all is entered with a loaded configuration.
Init ==
    /\ cfg \in [datasets : StageInputs, embeddings : StageInputs,
                unsloth : UnslothInputs, export : StageInputs,
                mlc_export : StageInputs]
    /\ dry_run \in BOOLEAN
    /\ command = "run-all"
    /\ task = None
    /\ run_dir = TRUE
    /\ OrchStart
    /\ EnvIdle
    /\ CliIdle
    /\ DataIdle

Next ==
    \/ record_stage_run
    \/ record_stage_skip
    \/ handle_unsloth_task
    \/ handle_unsloth_skip
    \/ Popen
    \/ PopenFails
    \/ ChildWrites
    \/ ChildClosesStdout
    \/ DatasetsChildWrites
    \/ ChildExits
    \/ Tick
    \/ DrainEOF
    \/ WaitReturns
    \/ WaitTimesOut
    \/ finish

Spec == Init /\ [][Next]_vars

\* The configuration sections a command reads.
Reads(cmd) == {Calls(cmd)[i] : i \in 1..Len(Calls(cmd))}

\* Any command is entered with a loaded configuration; the sections the
\* command never reads are left out of the configuration.
InitCmd ==
    /\ cfg \in [datasets : StageInputs, embeddings : StageInputs,
                unsloth : UnslothInputs, export : StageInputs,
                mlc_export : StageInputs]
    /\ dry_run \in BOOLEAN
    /\ command \in Commands
    /\ task \in {None} \cup {Some(t) : t \in TaskNames}
    /\ command # "run-sft" => task = None
    /\ run_dir = (command = "run-all")
    /\ \A name \in DOMAIN cfg : name \notin Reads(command) => cfg[name] = None
    /\ OrchStart
    /\ EnvIdle
    /\ CliIdle
    /\ DataIdle

NextCmd ==
    \/ Next
    \/ command_rejected
    \/ run_stage_call
    \/ run_sft_task
    \/ run_sft_no_tasks

SpecCmd == InitCmd /\ [][NextCmd]_vars

\* The unsloth_sft section as the configuration file may write it: it may
\* carry a timeout_seconds key like the stage sections.
RawUnslothInputs ==
    {None} \cup
    [enabled : BOOLEAN, script_exists : BOOLEAN,
     tasks : {<<>>, <<"dialog">>, <<"dialog", "reasoning">>},
     timeout_seconds : {None, Some(TimeoutSeconds)}]

\* _parse_unsloth_config: enabled, script, env and tasks are read; any other
\* key of the section is not.
parse_unsloth_config(raw) ==
    IF raw = None THEN None
    ELSE Some(UnslothConfig(raw.enabled, raw.script_exists, raw.tasks))

\* run-sft or run-export is entered with a configuration loaded from its raw
\* sections.
InitRun ==
    /\ command \in {"run-sft", "run-export"}
    /\ \E raw \in RawUnslothInputs, e \in StageInputs, m \in StageInputs :
          cfg = [datasets |-> None, embeddings |-> None,
                 unsloth |-> IF command = "run-sft"
                             THEN parse_unsloth_config(raw) ELSE None,
                 export |-> IF command = "run-export" THEN e ELSE None,
                 mlc_export |-> IF command = "run-export" THEN m ELSE None]
    /\ dry_run \in BOOLEAN
    /\ task \in {None} \cup {Some(t) : t \in TaskNames}
    /\ command # "run-sft" => task = None
    /\ run_dir = FALSE
    /\ OrchStart
    /\ EnvIdle
    /\ CliIdle
    /\ DataIdle

NextRun ==
    \/ command_rejected
    \/ run_stage_call
    \/ run_sft_task
    \/ run_sft_no_tasks
    \/ Popen
    \/ PopenFails
    \/ ChildWrites
    \/ ChildClosesStdout
    \/ ChildExits
    \/ Tick
    \/ DrainEOF
    \/ WaitReturns
    \/ WaitTimesOut
    \/ finish

\* The steps of the orchestrator process itself.
OrchestratorStep ==
    \/ command_rejected
    \/ run_stage_call
    \/ run_sft_task
    \/ run_sft_no_tasks
    \/ Popen
    \/ PopenFails
    \/ DrainEOF
    \/ WaitReturns
    \/ WaitTimesOut
    \/ finish

\* The orchestrator keeps running and time keeps passing; nothing makes a
\* child write, close its output or exit.
SpecRun ==
    /\ InitRun
    /\ [][NextRun]_vars
    /\ WF_vars(OrchestratorStep)
    /\ WF_vars(Tick)

----------------------------------------------------------------------------
(* Properties of run-all *)

EnabledStage(name) == IF Runs(cfg[name]) THEN <<name>> ELSE <<>>

EnabledTasks ==
    IF Runs(cfg.unsloth) THEN [i \in 1..Len(Tasks) |-> TaskLabel(Tasks[i])] ELSE <<>>

\* Every enabled stage and task, in the order the claims state.
StatedOrder ==
    EnabledStage("datasets") \o EnabledStage("embeddings") \o EnabledTasks
        \o EnabledStage("export") \o EnabledStage("mlc_export")

\* Whether the script of the stage or task called `label` is on disk.
ScriptOnDisk(label) ==
    IF label \in {"datasets", "embeddings", "export", "mlc_export"}
    THEN cfg[label][1].script_exists
    ELSE cfg.unsloth[1].script_exists

RanNames(rows) ==
    LET ran == SelectSeq(rows, LAMBDA r : r.status = "ran")
    IN  [i \in 1..Len(ran) |-> ran[i].name]

SomeChildFailed == \E i \in 1..Len(results) : results[i] \in {"Failed", "TimedOut"}

\* C1: the children of a run-all are spawned in the order datasets, embeddings,
\* the unsloth tasks as declared, export, mlc_export (absent and disabled slots
\* left out), each at most once, and none before the previous one has finished.
C1_SpawnOrder ==
    /\ IsPrefix(spawned, StatedOrder)
    /\ \A i, j \in 1..Len(spawned) : i # j => spawned[i] # spawned[j]
    /\ Len(results) <= Len(spawned)
    /\ Len(spawned) <= Len(results) + 1

\* C1 witness: a full pipeline with both tasks, declared reasoning first, has
\* spawned all six children.
C1_Witness ==
    spawned = <<"datasets", "embeddings", "unsloth:reasoning", "unsloth:dialog",
                "export", "mlc_export">>

\* C2: a child that ended Failed or TimedOut is the last child the invocation
\* spawns, and the invocation is over.
C2_FailureStops ==
    \A i \in 1..Len(results) :
        results[i] \in {"Failed", "TimedOut"} => (i = Len(spawned) /\ pc = "exited")

\* C2 witness: a child timed out while later enabled stages were still to come.
C2_Witness ==
    /\ Len(results) >= 1
    /\ results[Len(results)] = "TimedOut"
    /\ Len(spawned) < Len(StatedOrder)
    /\ pc = "exited"

\* C3: after a child failure, a child timeout or a required-stage violation the
\* invocation ends with a summary document written that lists as ran every
\* stage that completed.
C3_SummaryOnFailure ==
    (pc = "exited" /\ (SomeChildFailed \/ exit_code = 1)) =>
        /\ Len(summaryFile) = 1
        /\ \A i \in 1..Len(results) :
              results[i] = "Succeeded" =>
                  \E k \in 1..Len(summaryFile[1].stages) :
                      /\ summaryFile[1].stages[k].name = spawned[i]
                      /\ summaryFile[1].stages[k].status = "ran"

\* C4: a run-all in which children were spawned and every one of them succeeded
\* ends with exactly one summary written, after the mlc_export slot was handled.
C4_OneSummary ==
    (pc = "exited" /\ Len(spawned) >= 1 /\ Len(results) = Len(spawned)
        /\ \A i \in 1..Len(results) : results[i] = "Succeeded") =>
        /\ Len(summaryFile) = 1
        /\ slot = Len(Topology) + 1

\* The cases the exit-status sentence names: mlc_export absent or disabled, or
\* an invoked child that failed (did not start, or exited non-zero) or timed out.
C5_StatedCases ==
    \/ ~Runs(cfg.mlc_export)
    \/ SomeChildFailed
    \/ raised = "OSError"

\* C5 as stated: the exit status is non-zero exactly in the stated cases; an
\* enabled stage whose script file is missing still exits zero.
C5_ExitStatusAsStated ==
    pc = "exited" => (exitStatus # Some(0) <=> C5_StatedCases)

\* C5 amended: the exit status is non-zero exactly when mlc_export was skipped
\* as absent or disabled, an invoked child failed or timed out, or the stage
\* or task invoked last is enabled and its script file is missing on disk.
C5_ExitStatus ==
    pc = "exited" =>
        (exitStatus # Some(0) <=>
            \/ /\ slot = Len(Topology) + 1
               /\ ~Runs(cfg.mlc_export)
            \/ SomeChildFailed
            \/ raised = "OSError"
            \/ /\ current # "none"
               /\ ~ScriptOnDisk(current))

\* C5 witness: the run ended non-zero on a missing script although mlc_export
\* is enabled and every spawned child succeeded.
C5_Witness ==
    /\ pc = "exited"
    /\ exitStatus = Some(1)
    /\ raised = "FileNotFoundError"
    /\ Runs(cfg.mlc_export)
    /\ Len(spawned) >= 1

\* C6: with mlc_export absent or disabled the run exits non-zero, and when
\* nothing else failed every enabled stage and task was run in order first.
C6_RequiredStage ==
    (pc = "exited" /\ ~Runs(cfg.mlc_export)) =>
        /\ exitStatus # Some(0)
        /\ raised = "none" =>
              /\ RanNames(summary) = StatedOrder
              /\ ~dry_run => spawned = StatedOrder
              /\ \A i \in 1..Len(results) : results[i] = "Succeeded"
              /\ Len(summaryFile) = 1
              /\ summary[Len(summary)].name = "mlc_export"
              /\ summary[Len(summary)].status = "skipped"

\* C6 witness: mlc_export is disabled and four children ran before the exit.
C6_Witness ==
    /\ pc = "exited"
    /\ cfg.mlc_export # None
    /\ ~Runs(cfg.mlc_export)
    /\ raised = "none"
    /\ Len(spawned) = 4

\* C7: with a timeout T configured the runner is never still in the call more
\* than T seconds after the spawn.
C7_TimeoutBound ==
    (pc \in {"drain", "wait"} /\ timeout # None) => clock <= timeout[1]

\* C8 as stated: under dry-run every invoked stage or task, also one whose
\* script is missing, returns zero elapsed time.
C8_DryRunAsStated ==
    (dry_run /\ current # "none") => elapsed = Some(0)

\* C8 amended: under dry-run no child is spawned and the corpus, the dedup
\* state and the stage log stay untouched; an invoked stage or task returns
\* zero elapsed time when its script is on disk and raises FileNotFoundError
\* when it is not.
C8_DryRun ==
    dry_run =>
        /\ spawned = <<>>
        /\ child = "none"
        /\ files = {}
        /\ logFile = <<>>
        /\ current # "none" =>
              IF ScriptOnDisk(current)
              THEN elapsed = Some(0) /\ raised = "none"
              ELSE elapsed = None /\ raised = "FileNotFoundError"

\* C8 witness: a dry run in which stages returned zero and then one with a
\* missing script was invoked.
C8_Witness ==
    /\ dry_run
    /\ pc = "exited"
    /\ raised = "FileNotFoundError"
    /\ Len(RanNames(summary)) >= 2

----------------------------------------------------------------------------
(* The environment composer on its own: every layering of the four sources *)

\* load_factory_config builds FactoryConfig.global_env.
LoadConfig ==
    /\ envPc = "raw"
    /\ model_profile' = strip_profile(model_profile)
    /\ IF ProfileRejected(strip_profile(model_profile))
       THEN /\ envPc' = "load_failed"
            /\ UNCHANGED globalEnv
       ELSE /\ globalEnv' = load_global_env(rawGlobalEnv, strip_profile(model_profile))
            /\ envPc' = "loaded"
    /\ UNCHANGED <<osEnviron, rawGlobalEnv, groupEnv, taskEnv, childEnv>>
    /\ UNCHANGED <<orchVars, dataVars, cliVars>>

\* run_stage composes the child's environment: extra=cfg.env.
StageEnv ==
    /\ envPc = "loaded"
    /\ childEnv' = build_env(osEnviron, globalEnv, groupEnv, model_profile)
    /\ envPc' = "stage"
    /\ UNCHANGED <<osEnviron, rawGlobalEnv, model_profile, globalEnv, groupEnv, taskEnv>>
    /\ UNCHANGED <<orchVars, dataVars, cliVars>>

\* run_unsloth_task composes the child's environment.
TaskEnv ==
    /\ envPc = "loaded"
    /\ childEnv' = build_env(osEnviron, globalEnv, task_extra(groupEnv, taskEnv),
                             model_profile)
    /\ envPc' = "task"
    /\ UNCHANGED <<osEnviron, rawGlobalEnv, model_profile, globalEnv, groupEnv, taskEnv>>
    /\ UNCHANGED <<orchVars, dataVars, cliVars>>

InitEnv ==
    /\ osEnviron \in Dicts
    /\ rawGlobalEnv \in Dicts
    /\ groupEnv \in Dicts
    /\ taskEnv \in Dicts
    /\ model_profile \in RawProfiles
    /\ globalEnv = EmptyDict
    /\ childEnv = EmptyDict
    /\ envPc = "raw"
    /\ cfg = [datasets |-> None, embeddings |-> None, unsloth |-> None,
              export |-> None, mlc_export |-> None]
    /\ dry_run = TRUE
    /\ command = "run-all"
    /\ task = None
    /\ run_dir = TRUE
    /\ OrchStart
    /\ DataIdle
    /\ CliIdle

NextEnv ==
    \/ LoadConfig
    \/ StageEnv
    \/ TaskEnv

SpecEnv == InitEnv /\ [][NextEnv]_vars

----------------------------------------------------------------------------
(* Properties of the environment composer *)

Composed == envPc \in {"stage", "task"}

\* The layers that apply to the composed call, highest first: the task's env
\* (for a task only), the stage's or group's env, global_env, os.environ.
Layers ==
    (IF envPc = "task" THEN <<taskEnv>> ELSE <<>>) \o <<groupEnv, globalEnv, osEnviron>>

\* The configured layers for the marker, highest first, with global_env as the
\* configuration file gives it.
StatedLayers ==
    (IF envPc = "task" THEN <<taskEnv>> ELSE <<>>)
        \o <<groupEnv, rawGlobalEnv, osEnviron>>

Sets(layers, k) == {i \in 1..Len(layers) : k \in DOMAIN layers[i]}
Highest(layers, k) ==
    LET i == CHOOSE n \in Sets(layers, k) : \A m \in Sets(layers, k) : n <= m
    IN  layers[i][k]

\* C9: for every key some layer sets, the child sees the value of the highest
\* layer that sets it: task, then stage or group, then global_env, then the
\* inherited environment.
C9_Precedence ==
    Composed =>
        \A k \in EnvKeys :
            Sets(Layers, k) # {} =>
                /\ k \in DOMAIN childEnv
                /\ childEnv[k] = Highest(Layers, k)

\* C9 witness: a task's environment in which all four layers set HF_HOME and
\* the task's value differs from the others.
C9_Witness ==
    /\ envPc = "task"
    /\ Cardinality(Sets(Layers, "HF_HOME")) = 4
    /\ taskEnv["HF_HOME"] # groupEnv["HF_HOME"]
    /\ groupEnv["HF_HOME"] = globalEnv["HF_HOME"]
    /\ globalEnv["HF_HOME"] = osEnviron["HF_HOME"]
    /\ childEnv["HF_HOME"] = taskEnv["HF_HOME"]

\* C10 as stated: the marker is model_profile only if no layer defines the
\* key; a value in the inherited environment, global_env, the stage env or the
\* task env wins over model_profile.
C10_MarkerAsStated ==
    Composed =>
        /\ ProfileKey \in DOMAIN childEnv
        /\ childEnv[ProfileKey] =
              IF Sets(StatedLayers, ProfileKey) # {}
              THEN Highest(StatedLayers, ProfileKey)
              ELSE model_profile

\* C10 amended: the marker is the task env's value, else the stage or group
\* env's value, else model_profile; a value for the key in the inherited
\* environment or in the configuration's global_env never reaches the child.
C10_Marker ==
    Composed =>
        /\ ProfileKey \in DOMAIN childEnv
        /\ childEnv[ProfileKey] =
              IF envPc = "task" /\ ProfileKey \in DOMAIN taskEnv
              THEN taskEnv[ProfileKey]
              ELSE IF ProfileKey \in DOMAIN groupEnv
              THEN groupEnv[ProfileKey]
              ELSE model_profile

\* C10 witness: the inherited environment and the configuration's global_env
\* both set the marker to another value and the child sees model_profile.
C10_Witness ==
    /\ envPc = "stage"
    /\ ProfileKey \in DOMAIN osEnviron
    /\ ProfileKey \in DOMAIN rawGlobalEnv
    /\ osEnviron[ProfileKey] # model_profile
    /\ rawGlobalEnv[ProfileKey] # model_profile
    /\ childEnv[ProfileKey] = model_profile

\* The stage-level or task-level override of the marker that applies to the
\* composed call, None when neither sets the key.
MarkerOverride ==
    IF envPc = "task" /\ ProfileKey \in DOMAIN taskEnv
    THEN Some(taskEnv[ProfileKey])
    ELSE IF ProfileKey \in DOMAIN groupEnv
    THEN Some(groupEnv[ProfileKey])
    ELSE None

\* C11 as stated: every composed child environment holds the marker key with a
\* non-empty value.
C11_MarkerNonEmptyAsStated ==
    Composed =>
        /\ ProfileKey \in DOMAIN childEnv
        /\ childEnv[ProfileKey] # ""

\* C11 amended: every composed child environment holds the marker key, and its
\* value is empty only when the stage, group or task env that wins sets the key
\* to the empty string; the model_profile label itself is never empty.
C11_MarkerNonEmpty ==
    Composed =>
        /\ ProfileKey \in DOMAIN childEnv
        /\ model_profile # ""
        /\ childEnv[ProfileKey] = "" <=> MarkerOverride = Some("")

\* C11 witness: a configuration that writes the label with surrounding blanks
\* and no override: the child sees the stripped label.
C11_Witness ==
    /\ envPc = "task"
    /\ MarkerOverride = None
    /\ ProfileKey \in DOMAIN osEnviron
    /\ osEnviron[ProfileKey] = ""
    /\ childEnv[ProfileKey] = "x"
    /\ model_profile = "x"

\* The rows of the summary, as a set.
SummaryRows == {summary[j] : j \in DOMAIN summary}

\* The note _record_stage gives a slot it skips.
SkipNote(name) == IF cfg[name] = None THEN "not configured" ELSE "disabled"

\* C24: in run-all a stage slot that is absent or disabled never has a child
\* spawned; once handled it is in the summary as skipped with its note, the
\* pipeline has moved on, and exit_code is set only by a skipped required
\* slot.
C24_SkippedSlots ==
    /\ \A i \in 1..Len(Topology) :
          LET name == Topology[i]
          IN (name # "unsloth" /\ ~Runs(cfg[name])) =>
                /\ \A k \in DOMAIN spawned : spawned[k] # name
                /\ i < slot <=> [name |-> name, status |-> "skipped",
                                 note |-> SkipNote(name)] \in SummaryRows
    /\ exit_code # 0 <=> (slot > Len(Topology) /\ ~Runs(cfg.mlc_export))

\* C24 witness: run-all ended with status 0 after skipping an absent datasets
\* slot and a disabled embeddings slot and spawning the later stages.
C24_Witness ==
    /\ pc = "exited"
    /\ exitStatus = Some(0)
    /\ cfg.datasets = None
    /\ cfg.embeddings # None
    /\ ~Runs(cfg.embeddings)
    /\ spawned = <<"export", "mlc_export">>
    /\ Len(summary) >= 4

----------------------------------------------------------------------------
(* Properties of every command *)

\* C19: at every moment of any command at most one child spawned by the
\* orchestrator is alive.
C19_OneChildAtATime ==
    /\ Cardinality(live) <= 1
    /\ child = "running" <=> live = {Len(spawned)}

\* C19 witness: run-export's second child is running after its first child
\* has ended.
C19_Witness ==
    /\ command = "run-export"
    /\ spawned = <<"export", "mlc_export">>
    /\ results = <<"Succeeded">>
    /\ child = "running"
    /\ live = {2}

IsTask(label) == label \in {TaskLabel(t) : t \in TaskNames}

\* C20: once the child of an unsloth task has failed, that child is the last
\* one spawned and the command has ended with status 1, in run-all and in
\* run-sft.
C20_TaskFailureStops ==
    \A i \in DOMAIN results :
        (IsTask(spawned[i]) /\ results[i] # "Succeeded") =>
            /\ command \in {"run-all", "run-sft"}
            /\ Len(spawned) = i
            /\ pc = "exited"
            /\ exitStatus = Some(1)

\* C20 witness: run-sft over two tasks, ended after the first task's child
\* failed.
C20_Witness ==
    /\ command = "run-sft"
    /\ task = None
    /\ Len(Tasks) = 2
    /\ spawned = <<TaskLabel(Tasks[1])>>
    /\ results = <<"Failed">>
    /\ pc = "exited"

\* C28: in run-export an absent or disabled mlc_export ends the command with
\* status 1 before anything else: no child is spawned, no run directory is
\* created and no summary is written.
C28_ExportRequiresMlc ==
    (command = "run-export" /\ ~Runs(cfg.mlc_export)) =>
        /\ spawned = <<>>
        /\ ~run_dir
        /\ summaryFile = <<>>
        /\ pc \in {"orchestrate", "exited"}
        /\ pc = "exited" => exitStatus = Some(1)

\* C28 witness: run-export with an enabled export stage and a disabled
\* mlc_export has exited with status 1.
C28_Witness ==
    /\ command = "run-export"
    /\ Runs(cfg.export)
    /\ cfg.mlc_export # None
    /\ ~Runs(cfg.mlc_export)
    /\ pc = "exited"
    /\ exitStatus = Some(1)
    /\ spawned = <<>>

\* The current log has its start marker and not yet its finished marker.
LogOpen == logFile # <<>> /\ logFile[Len(logFile)] # "# Finished"

LogFinished == logFile # <<>> /\ logFile[Len(logFile)] = "# Finished"

\* The log holds the start marker, then the echoed lines in their order, then
\* the finished marker if it was written.
LogShape ==
    \/ logFile = <<>>
    \/ logFile = <<"# Started">> \o console
    \/ logFile = <<"# Started">> \o console \o <<"# Finished">>

C29_TasksNeverTimeOut ==
    /\ (IsTask(current) /\ pc \in {"popen", "drain", "wait"}) => timeout = None
    /\ IsTask(current) => child # "killed"
    /\ \A i \in DOMAIN results : IsTask(spawned[i]) => results[i] # "TimedOut"

\* C29 witness: the orchestrator is still in proc.wait for a task's child
\* that has run for longer than the timeout a stage may configure.
C29_Witness ==
    /\ IsTask(current)
    /\ pc = "wait"
    /\ child = "running"
    /\ clock - waitFrom >= TimeoutSeconds

----------------------------------------------------------------------------
(* The dataset engine: scripts/dataset_prep.py *)

\* Text is a sequence of characters.
NL == "\n"
Whitespace == {" ", NL}

RECURSIVE lstrip(_)
lstrip(s) == IF s # <<>> /\ Head(s) \in Whitespace THEN lstrip(Tail(s)) ELSE s

RECURSIVE rstrip(_)
rstrip(s) ==
    IF s # <<>> /\ s[Len(s)] \in Whitespace
    THEN rstrip(SubSeq(s, 1, Len(s) - 1))
    ELSE s

\* str.strip()
strip(s) == rstrip(lstrip(s))

\* A source row: each mapped field is None when the row lacks it.
Row(p, r) == [prompt |-> p, response |-> r]

\* The rows the sources are made of.
RowInputs ==
    { Row(Some(<<"a">>), Some(<<"a">>)),
      Row(Some(<<"a">>), Some(<<"a", NL, NL, "a">>)),
      Row(Some(<<"a", NL, NL, "a">>), Some(<<"a">>)),
      Row(Some(<<" ", "a">>), Some(<<"a", NL>>)),
      Row(Some(<<" ">>), Some(<<"a">>)),
      Row(None, Some(<<"a">>)) }

RECURSIVE SeqsUpTo(_, _)
SeqsUpTo(S, n) ==
    IF n = 0 THEN {<<>>}
    ELSE LET shorter == SeqsUpTo(S, n - 1)
         IN shorter \cup {Append(q, x) : q \in {t \in shorter : Len(t) = n - 1}, x \in S}

\* A DatasetEntry together with what load_dataset gives for it.
DatasetEntry(name, language, max_examples, rows, loadable) ==
    [name |-> name, language |-> language, max_examples |-> max_examples,
     rows |-> rows, loadable |-> loadable]

\* hashlib.sha1(...).hexdigest(): distinct texts have distinct digests.
sha1(text) == [digest |-> text]

\* prepare_datasets: the dedup key of a canonical example.
dedup_key(canonical) == sha1(canonical.prompt \o <<NL, NL>> \o canonical.response)

\* `entry.max_examples or cfg.max_per_dataset`
effective_cap(entry, c) ==
    IF entry.max_examples # None /\ entry.max_examples[1] # 0
    THEN entry.max_examples[1]
    ELSE c.max_per_dataset

\* Mutant of needs_subsample: the source is never subsampled.
never_subsample(max_examples, n) == FALSE

\* `if max_examples and len(ds) > max_examples`
needs_subsample(max_examples, n) == max_examples # 0 /\ n > max_examples

\* random.shuffle(list(range(n))) in generator state r: a permutation of 1..n
\* that the state determines.
shuffle(r, n) == [i \in 1..n |-> ((i - 1 + r) % n) + 1]

\* ds.select(indices[:k])
select(ds, indices, k) == [i \in 1..k |-> ds[indices[i]]]

\* The rows iterated over, after the optional subsampling.
subsample(entry, c, r) ==
    LET max_examples == effective_cap(entry, c)
        n == Len(entry.rows)
    IN IF needs_subsample(max_examples, n)
       THEN select(entry.rows, shuffle(r, n), max_examples)
       ELSE entry.rows

\* The generator state after the entry: one shuffle call when subsampling.
rng_after(entry, c, r) ==
    IF needs_subsample(effective_cap(entry, c), Len(entry.rows)) THEN r + 1 ELSE r

\* `lang = entry.language or "unknown"`
resolve_language(entry) ==
    IF entry.language = None \/ entry.language[1] = ""
    THEN "unknown"
    ELSE entry.language[1]

\* Mutant of lang_passes: only listed languages pass.
lang_passes_listed_only(langs, lang) == langs = {} \/ lang \in langs

\* The negation of `cfg.langs and lang not in cfg.langs and lang != "unknown"`.
lang_passes(langs, lang) == ~(langs # {} /\ lang \notin langs /\ lang # "unknown")

\* The row has both mapped fields (no KeyError) and neither is empty once
\* stripped.
row_usable(ex) ==
    /\ ex.prompt # None
    /\ ex.response # None
    /\ strip(ex.prompt[1]) # <<>>
    /\ strip(ex.response[1]) # <<>>

UpperCase == <<"A", "B", "C", "D", "E", "F", "G", "H", "I", "J", "K", "L", "M",
               "N", "O", "P", "Q", "R", "S", "T", "U", "V", "W", "X", "Y", "Z">>
LowerCase == <<"a", "b", "c", "d", "e", "f", "g", "h", "i", "j", "k", "l", "m",
               "n", "o", "p", "q", "r", "s", "t", "u", "v", "w", "x", "y", "z">>

\* str.lower()
lower(s) ==
    [i \in DOMAIN s |->
        IF \E k \in DOMAIN UpperCase : UpperCase[k] = s[i]
        THEN LowerCase[CHOOSE k \in DOMAIN UpperCase : UpperCase[k] = s[i]]
        ELSE s[i]]

\* `k in lower`: substring containment.
Contains(s, k) ==
    \E i \in 1..(Len(s) - Len(k) + 1) : SubSeq(s, i, i + Len(k) - 1) = k

\* The keyword lists of infer_task_from_name.
DialogKeywords == {<<"d", "i", "a", "l", "o", "g">>,
                   <<"c", "h", "a", "t">>,
                   <<"c", "o", "n", "v", "e", "r", "s", "a", "t", "i", "o", "n">>}
ReasoningKeywords == {<<"r", "e", "a", "s", "o", "n">>,
                      <<"c", "o", "t">>,
                      <<"s", "t", "e", "p">>}
RetrievalKeywords == {<<"r", "e", "t", "r", "i", "e", "v", "a", "l">>,
                      <<"q", "a">>,
                      <<"q", "&", "a">>,
                      <<"r", "a", "g">>}

\* Mutant of infer_task_from_name: the retrieval keywords are tried first.
infer_task_retrieval_first(name) ==
    IF \E k \in RetrievalKeywords : Contains(lower(name), k) THEN "retrieval"
    ELSE IF \E k \in DialogKeywords : Contains(lower(name), k) THEN "dialog"
    ELSE IF \E k \in ReasoningKeywords : Contains(lower(name), k) THEN "reasoning"
    ELSE "instruction"

infer_task_from_name(name) ==
    IF \E k \in DialogKeywords : Contains(lower(name), k) THEN "dialog"
    ELSE IF \E k \in ReasoningKeywords : Contains(lower(name), k) THEN "reasoning"
    ELSE IF \E k \in RetrievalKeywords : Contains(lower(name), k) THEN "retrieval"
    ELSE "instruction"

Canonical(ex, entry) ==
    [prompt |-> IF ex.prompt = None THEN <<>> ELSE strip(ex.prompt[1]),
     response |-> IF ex.response = None THEN <<>> ELSE strip(ex.response[1]),
     language |-> resolve_language(entry),
     task |-> infer_task_from_name(entry.name),
     source |-> entry.name]

\* The `for ex in ds` loop: the canonical examples yielded, in order.
RECURSIVE normalize(_, _, _)
normalize(ds, entry, c) ==
    IF ds = <<>> THEN <<>>
    ELSE IF row_usable(Head(ds)) /\ lang_passes(c.langs, resolve_language(entry))
    THEN <<Canonical(Head(ds), entry)>> \o normalize(Tail(ds), entry, c)
    ELSE normalize(Tail(ds), entry, c)

\* iter_examples_for_entry for a source that loads.
iter_examples_for_entry(entry, c, r) == normalize(subsample(entry, c, r), entry, c)

\* dedup_state.json: absent, a JSON list of hashes, a JSON document that is not
\* a list, or cut to nothing by open("w").
StateFile(kind, hashes) == [kind |-> kind, hashes |-> hashes]

\* DedupState.load
DedupLoad(file) == IF file.kind = "list" THEN file.hashes ELSE {}

\* Mutant of is_new_adds: the key is not remembered.
is_new_forgets(seen, key) == seen

\* DedupState.is_new: seen_hashes after the call.
is_new_adds(seen, key) == seen \cup {key}

\* DedupState.save, `path.open("w")`: the file is cut to length 0.
save_open(file) == StateFile("truncated", {})

\* Mutant of open_append: the corpus is opened with mode "w".
open_truncate(content) == <<>>

\* corpus_path.open("a"): the content the file has is kept, writes go after it.
open_append(content) == content

\* OpenEntry: the for loop of prepare_datasets reaches an entry and the
\* generator runs up to its first yield: load_dataset, subsampling.
OpenEntry ==
    /\ dpc = "entry"
    /\ entryIdx <= Len(metadata)
    /\ LET entry == metadata[entryIdx]
       IN IF entry.loadable
          THEN /\ pending' = iter_examples_for_entry(entry, dcfg, rng)
               /\ rng' = rng_after(entry, dcfg, rng)
               /\ dpc' = "rows"
               /\ UNCHANGED dataExit
          ELSE \* load_dataset raises; main() logs it and returns 1
               /\ dpc' = "failed"
               /\ dataExit' = Some(1)
               /\ UNCHANGED <<pending, rng>>
    /\ UNCHANGED <<dcfg, metadata, stateFile, corpus, seen_hashes, entryIdx,
                   total_seen, total_written, total_skipped_dup, runNo, fileAtStart,
                   corpusAtStart, startHashes, prevCompleted>>
    /\ UNCHANGED <<orchVars, envVars, cliVars>>

\* One pass of the body of `for canonical in iter_examples_for_entry(...)`.
ProcessExample ==
    /\ dpc = "rows"
    /\ pending # <<>>
    /\ LET canonical == Head(pending)
           key == dedup_key(canonical)
       IN /\ total_seen' = total_seen + 1
          /\ seen_hashes' = is_new_adds(seen_hashes, key)
          /\ IF key \in seen_hashes
             THEN /\ total_skipped_dup' = total_skipped_dup + 1
                  /\ UNCHANGED <<corpus, total_written>>
             ELSE /\ corpus' = Append(corpus, canonical)
                  /\ total_written' = total_written + 1
                  /\ UNCHANGED total_skipped_dup
    /\ pending' = Tail(pending)
    /\ UNCHANGED <<dcfg, metadata, stateFile, dpc, entryIdx, rng, runNo, fileAtStart,
                   corpusAtStart, startHashes, prevCompleted, dataExit>>
    /\ UNCHANGED <<orchVars, envVars, cliVars>>

\* The entry's generator is exhausted: the for loop moves on.
EndEntry ==
    /\ dpc = "rows"
    /\ pending = <<>>
    /\ entryIdx' = entryIdx + 1
    /\ dpc' = "entry"
    /\ UNCHANGED <<dcfg, metadata, stateFile, corpus, seen_hashes, pending, total_seen,
                   total_written, total_skipped_dup, rng, runNo, fileAtStart,
                   corpusAtStart, startHashes, prevCompleted, dataExit>>
    /\ UNCHANGED <<orchVars, envVars, cliVars>>

\* dedup.save, first half: the state file is opened for writing.
SaveOpen ==
    /\ dpc = "entry"
    /\ entryIdx > Len(metadata)
    /\ stateFile' = save_open(stateFile)
    /\ dpc' = "saving"
    /\ UNCHANGED <<dcfg, metadata, corpus, seen_hashes, entryIdx, pending, total_seen,
                   total_written, total_skipped_dup, rng, runNo, fileAtStart,
                   corpusAtStart, startHashes, prevCompleted, dataExit>>
    /\ UNCHANGED <<orchVars, envVars, cliVars>>

\* dedup.save, second half: json.dump and close; the summary is logged and
\* main() returns 0.
SaveDump ==
    /\ dpc = "saving"
    /\ stateFile' = StateFile("list", seen_hashes)
    /\ dpc' = "done"
    /\ dataExit' = Some(0)
    /\ UNCHANGED <<dcfg, metadata, corpus, seen_hashes, entryIdx, pending, total_seen,
                   total_written, total_skipped_dup, rng, runNo, fileAtStart,
                   corpusAtStart, startHashes, prevCompleted>>
    /\ UNCHANGED <<orchVars, envVars, cliVars>>

\* The process is killed (or the machine stops) during the run.  Corpus lines
\* still in the writer's buffer are lost: the file keeps a prefix of them.
Crash ==
    /\ dpc \in {"entry", "rows", "saving"}
    /\ dpc' = "crashed"
    /\ IF dpc = "saving"
       THEN UNCHANGED corpus
       ELSE \E n \in Len(corpusAtStart)..Len(corpus) : corpus' = SubSeq(corpus, 1, n)
    /\ UNCHANGED <<dcfg, metadata, stateFile, seen_hashes, entryIdx, pending, total_seen,
                   total_written, total_skipped_dup, rng, runNo, fileAtStart,
                   corpusAtStart, startHashes, prevCompleted, dataExit>>
    /\ UNCHANGED <<orchVars, envVars, cliVars>>

\* main(): parse_args (random.seed), then prepare_datasets up to the opening
\* of the corpus: DedupState.load, load_metadata, the counters.
StartRun ==
    /\ dpc \in {"idle", "done", "failed", "crashed"}
    /\ runNo < MaxRuns
    /\ runNo' = runNo + 1
    /\ rng' = dcfg.seed
    /\ seen_hashes' = DedupLoad(stateFile)
    /\ total_seen' = 0
    /\ total_written' = 0
    /\ total_skipped_dup' = 0
    /\ entryIdx' = 1
    /\ pending' = <<>>
    /\ dpc' = "entry"
    /\ dataExit' = None
    /\ fileAtStart' = stateFile
    /\ corpusAtStart' = corpus
    /\ startHashes' = startHashes \cup stateFile.hashes
    /\ prevCompleted' = (dpc = "done")
    /\ corpus' = open_append(corpus)
    /\ UNCHANGED <<dcfg, metadata, stateFile>>
    /\ UNCHANGED <<orchVars, envVars, cliVars>>

Langs == {"en", "fr"}
Seeds == {0, 1}

EntryA == DatasetEntry(<<"c", "h", "a", "t", "_", "a">>, None, None,
                       <<Row(Some(<<"a">>), Some(<<"a">>)),
                         Row(None, Some(<<"a">>)),
                         Row(Some(<<"a">>), Some(<<"a", NL, NL, "a">>))>>, TRUE)
EntryB == DatasetEntry(<<"q", "a", "_", "b">>, Some("en"), Some(1),
                       <<Row(Some(<<" ", "a">>), Some(<<"a", NL>>)),
                         Row(Some(<<"a", NL, NL, "a">>), Some(<<"a">>))>>, TRUE)
EntryC == DatasetEntry(<<"c", "o", "t", "_", "c">>, Some("de"), None,
                       <<Row(Some(<<"a">>), Some(<<"a">>))>>, TRUE)
EntryD == DatasetEntry(<<"r", "a", "g", "_", "d">>, Some("fr"), None, <<>>, FALSE)

\* The manifests of the multi-run specification: one or two entries.
DataEntries == {EntryA, EntryB, EntryC, EntryD}
Manifests == {<<e>> : e \in DataEntries} \cup (DataEntries \X DataEntries)

OrchOff ==
    /\ cfg = [datasets |-> None, embeddings |-> None, unsloth |-> None,
              export |-> None, mlc_export |-> None]
    /\ dry_run = TRUE
    /\ command = "run-all"
    /\ task = None
    /\ run_dir = TRUE
    /\ OrchStart

\* An output directory before the first run: no state file, or one an earlier
\* use of the directory left.
InitData ==
    /\ metadata \in Manifests
    /\ dcfg \in [langs : {Langs}, max_per_dataset : {0, MaxCap}, seed : Seeds]
    /\ stateFile \in {StateFile("absent", {}),
                      StateFile("list", {sha1(<<"a", NL, NL, "a">>)}),
                      StateFile("not_list", {sha1(<<"a", NL, NL, "a">>)})}
    /\ corpus = <<>>
    /\ dpc = "idle"
    /\ seen_hashes = {}
    /\ entryIdx = 0
    /\ pending = <<>>
    /\ total_seen = 0
    /\ total_written = 0
    /\ total_skipped_dup = 0
    /\ rng = 0
    /\ runNo = 0
    /\ fileAtStart = stateFile
    /\ corpusAtStart = <<>>
    /\ startHashes = {}
    /\ prevCompleted = FALSE
    /\ dataExit = None
    /\ OrchOff
    /\ EnvIdle
    /\ CliIdle

NextData ==
    \/ StartRun
    \/ OpenEntry
    \/ ProcessExample
    \/ EndEntry
    \/ SaveOpen
    \/ SaveDump
    \/ Crash

SpecData == InitData /\ [][NextData]_vars

----------------------------------------------------------------------------
(* Properties of the dataset engine across runs *)

\* C12: a run that completes after a run that completed (same manifest, same
\* sources, same seed, the state file the first run saved) writes no row and
\* leaves the corpus as it found it.
C12_SecondRunWritesNothing ==
    (dpc = "done" /\ prevCompleted) =>
        /\ total_written = 0
        /\ corpus = corpusAtStart

\* C12 witness: a second completed run over a subsampled entry and an
\* unsubsampled one, all of whose examples were skipped as duplicates.
C12_Witness ==
    /\ dpc = "done"
    /\ prevCompleted
    /\ metadata = <<EntryB, EntryA>>
    /\ fileAtStart.kind = "list"
    /\ total_seen = 3
    /\ total_skipped_dup = 3
    /\ Len(corpus) >= 2

\* The lines the current run has appended to the corpus.
AppendedThisRun == SubSeq(corpus, Len(corpusAtStart) + 1, Len(corpus))

\* C13: an example whose hash was in the state file when this run or an
\* earlier one started is not among the lines a run appends, whatever the
\* file's content when it is loaded.
C13_NeverReEmitted ==
    \A i \in DOMAIN AppendedThisRun :
        dedup_key(AppendedThisRun[i]) \notin startHashes

\* C14: after a crash, whether in the entry loop or in the final save, the
\* state file holds what it held when the run started.
C14_CrashKeepsStateFile ==
    dpc = "crashed" => stateFile = fileAtStart

\* C18: a run that is not killed ends complete whatever rows lack a field and
\* whatever sources fail to load: every entry was gone through, the dedup
\* state is persisted and main() returns 0.
C18_LocalRecovery ==
    dpc \in {"done", "failed"} =>
        /\ entryIdx = Len(metadata) + 1
        /\ stateFile = StateFile("list", seen_hashes)
        /\ dataExit = Some(0)

\* C21: a run only appends to the corpus: what the corpus held when the run
\* started is a prefix of what it holds during and after the run, completed,
\* failed or crashed.
C21_CorpusAppendOnly ==
    runNo >= 1 => IsPrefix(corpusAtStart, corpus)

\* C21 witness: a second run, after a run that did not save its dedup state,
\* has appended lines after the lines the first run left.
C21_Witness ==
    /\ runNo = 2
    /\ corpusAtStart # <<>>
    /\ Len(corpus) > Len(corpusAtStart)
    /\ dpc = "done"

\* The set DedupState.load gave the current run.
Loaded == DedupLoad(fileAtStart)

\* C26: after every pass of the example loop, seen = written + skipped, and
\* written is the number of hashes added to the dedup set since it was loaded.
C26_Counters ==
    runNo >= 1 =>
        /\ total_seen = total_written + total_skipped_dup
        /\ total_written = Cardinality(seen_hashes \ Loaded)

\* C26 witness: a run that loaded a non-empty set has written an example and
\* skipped another.
C26_Witness ==
    /\ Loaded # {}
    /\ total_written >= 1
    /\ total_skipped_dup >= 1
    /\ dpc = "rows"

\* C27: after a completed run the state file holds the loaded set united with
\* the hashes of exactly the lines the run appended; no loaded hash is gone.
C27_PersistedState ==
    dpc = "done" =>
        /\ stateFile = StateFile("list",
               Loaded \cup {dedup_key(AppendedThisRun[i]) : i \in DOMAIN AppendedThisRun})
        /\ Loaded \subseteq stateFile.hashes

\* C27 witness: a completed run that loaded one hash, skipped a duplicate and
\* appended one line saved two hashes.
C27_Witness ==
    /\ dpc = "done"
    /\ Cardinality(Loaded) = 1
    /\ total_skipped_dup >= 1
    /\ Len(AppendedThisRun) = 1
    /\ Cardinality(stateFile.hashes) = 2

----------------------------------------------------------------------------
(* One entry on its own: every source, language tag and cap *)

Languages == {None, Some("en"), Some("de"), Some("unknown"), Some("")}
Caps == {None} \cup {Some(n) : n \in 0..MaxCap}

EntryInputs ==
    {DatasetEntry(<<"c", "h", "a", "t", "_", "a">>, l, m, rows, TRUE) :
        l \in Languages, m \in Caps, rows \in SeqsUpTo(RowInputs, MaxRows)}
    \cup {DatasetEntry(<<"c", "h", "a", "t", "_", "a">>, None, None, <<>>, FALSE)}

\* prepare_datasets has reached its only entry with a fresh dedup state and an
\* empty corpus.
InitEntry ==
    /\ \E entry \in EntryInputs : metadata = <<entry>>
    /\ dcfg \in [langs : {{}, Langs}, max_per_dataset : 0..MaxCap, seed : Seeds]
    /\ stateFile = StateFile("absent", {})
    /\ corpus = <<>>
    /\ dpc = "entry"
    /\ seen_hashes = {}
    /\ entryIdx = 1
    /\ pending = <<>>
    /\ total_seen = 0
    /\ total_written = 0
    /\ total_skipped_dup = 0
    /\ rng = dcfg.seed
    /\ runNo = 1
    /\ fileAtStart = stateFile
    /\ corpusAtStart = <<>>
    /\ startHashes = {}
    /\ prevCompleted = FALSE
    /\ dataExit = None
    /\ OrchOff
    /\ EnvIdle
    /\ CliIdle

NextEntry ==
    \/ OpenEntry
    \/ ProcessExample
    \/ EndEntry

SpecEntry == InitEntry /\ [][NextEntry]_vars

----------------------------------------------------------------------------
(* Properties of one entry *)

Range(f) == {f[i] : i \in DOMAIN f}

\* The entry's generator has run to its end.
EntryDone == dpc = "entry" /\ entryIdx = 2

\* What the entry's generator yields in this run.
Yielded == iter_examples_for_entry(metadata[1], dcfg, dcfg.seed)

\* The rows of the source that are iterated over.
Selected == subsample(metadata[1], dcfg, dcfg.seed)

Fields(canonical) == <<canonical.prompt, canonical.response>>

\* C15: two examples are treated as duplicates exactly when their trimmed
\* prompts are equal and their trimmed responses are equal: examples that
\* differ in a field have different keys, so one corpus line is written per
\* distinct (prompt, response) pair.
C15_DuplicateIffFieldsEqual ==
    EntryDone =>
        /\ \A x, y \in Range(Yielded) :
            dedup_key(x) = dedup_key(y) <=> Fields(x) = Fields(y)
        /\ total_written = Cardinality({Fields(x) : x \in Range(Yielded)})

\* The selected rows that have both fields, non-empty once trimmed.
Usable == {i \in DOMAIN Selected : row_usable(Selected[i])}

\* C16: with a non-empty allow-list the language filter drops the rows of an
\* entry exactly when the entry's resolved language is neither listed nor
\* "unknown"; an entry without a language tag resolves to "unknown".
C16_LanguageFilter ==
    (EntryDone /\ dcfg.langs # {}) =>
        LET lang == resolve_language(metadata[1])
        IN /\ metadata[1].language = None => lang = "unknown"
           /\ IF lang \notin dcfg.langs /\ lang # "unknown"
              THEN total_seen = 0
              ELSE total_seen = Cardinality(Usable)

\* C16 witness: an allow-list, an entry without a language tag, and both of
\* its rows yielded.
C16_Witness ==
    /\ EntryDone
    /\ dcfg.langs = Langs
    /\ metadata[1].language = None
    /\ Len(metadata[1].rows) = 2
    /\ total_seen = 2

\* The cap as the specification defines it: the entry's cap if set, else the
\* run-level default.
StatedCap ==
    IF metadata[1].max_examples # None
    THEN metadata[1].max_examples[1]
    ELSE dcfg.max_per_dataset

C25_EffectiveCap ==
    EntryDone => effective_cap(metadata[1], dcfg) = StatedCap

----------------------------------------------------------------------------
(* The task label: every dataset name made of one or two fragments *)

NameFragments ==
    { <<"c", "h", "a", "t">>,
      <<"D", "i", "a", "l", "o", "g">>,
      <<"c", "o", "n", "v", "e", "r", "s", "a", "t", "i", "o", "n">>,
      <<"C", "O", "T">>,
      <<"s", "t", "e", "p">>,
      <<"r", "e", "a", "s", "o", "n">>,
      <<"q", "a">>,
      <<"Q", "&", "A">>,
      <<"r", "a", "g">>,
      <<"r", "e", "t", "r", "i", "e", "v", "a", "l">>,
      <<"s", "e", "t">>,
      <<"_">> }

NameInputs == NameFragments \cup {a \o b : a \in NameFragments, b \in NameFragments}

\* prepare_datasets has reached its only entry, a source of one usable row
\* under a dataset name.
InitTask ==
    /\ \E name \in NameInputs :
          metadata = <<DatasetEntry(name, None, None,
                                    <<Row(Some(<<"a">>), Some(<<"a">>))>>, TRUE)>>
    /\ dcfg = [langs |-> {}, max_per_dataset |-> 0, seed |-> 0]
    /\ stateFile = StateFile("absent", {})
    /\ corpus = <<>>
    /\ dpc = "entry"
    /\ seen_hashes = {}
    /\ entryIdx = 1
    /\ pending = <<>>
    /\ total_seen = 0
    /\ total_written = 0
    /\ total_skipped_dup = 0
    /\ rng = 0
    /\ runNo = 1
    /\ fileAtStart = stateFile
    /\ corpusAtStart = <<>>
    /\ startHashes = {}
    /\ prevCompleted = FALSE
    /\ dataExit = None
    /\ OrchOff
    /\ EnvIdle
    /\ CliIdle

SpecTask == InitTask /\ [][NextEntry]_vars

----------------------------------------------------------------------------
(* Properties of the task label *)

\* The label the ordered groups give a lower-cased name.
FirstGroup(name, dialog, reasoning, retrieval) ==
    IF \E k \in dialog : Contains(name, k) THEN "dialog"
    ELSE IF \E k \in reasoning : Contains(name, k) THEN "reasoning"
    ELSE IF \E k \in retrieval : Contains(name, k) THEN "retrieval"
    ELSE "instruction"

\* The nine keywords the specification lists.
StatedDialog == {<<"d", "i", "a", "l", "o", "g">>, <<"c", "h", "a", "t">>, <<"c", "o", "n", "v", "e", "r", "s", "a", "t", "i", "o", "n">>}
StatedReasoning == {<<"r", "e", "a", "s", "o", "n">>, <<"c", "o", "t">>, <<"s", "t", "e", "p">>}
StatedRetrieval == {<<"r", "e", "t", "r", "i", "e", "v", "a", "l">>, <<"q", "a">>, <<"r", "a", "g">>}

\* C22 as stated: the label of a written example is that of the first
\* matching group among dialog/chat/conversation, reason/cot/step,
\* retrieval/qa/rag, and instruction when the name holds none of the nine.
C22_TaskLabelAsStated ==
    \A i \in DOMAIN corpus :
        corpus[i].task = FirstGroup(lower(corpus[i].source), StatedDialog,
                                    StatedReasoning, StatedRetrieval)

\* C22 amended: the same with "q&a" as a fourth retrieval keyword.
C22_TaskLabel ==
    \A i \in DOMAIN corpus :
        corpus[i].task = FirstGroup(lower(corpus[i].source), StatedDialog,
                                    StatedReasoning,
                                    StatedRetrieval \cup {<<"q", "&", "a">>})

\* C22 witness: a name with an upper-case reasoning keyword followed by a
\* dialog keyword is labelled dialog.
C22_Witness ==
    /\ corpus # <<>>
    /\ corpus[1].source = <<"C", "O", "T", "c", "h", "a", "t">>
    /\ corpus[1].task = "dialog"

----------------------------------------------------------------------------
(* The datasets stage's argument list: _dict_to_cli_args and parse_args *)

\* The argument keys of the dataset engine, as a stage's args mapping may
\* hold them.
EngineKeys ==
    << <<"o", "u", "t", "p", "u", "t", "_", "d", "i", "r">>,
       <<"l", "a", "n", "g", "s">>,
       <<"m", "a", "x", "_", "p", "e", "r", "_", "d", "a", "t", "a", "s", "e", "t">>,
       <<"m", "e", "t", "a", "d", "a", "t", "a", "_", "f", "i", "l", "e">>,
       <<"c", "a", "c", "h", "e", "_", "d", "i", "r">>,
       <<"s", "e", "e", "d">> >>

\* The args mappings: every selection of the keys, in the order above.
ArgsInputs ==
    {SelectSeq(EngineKeys, LAMBDA k : k \in S) :
        S \in SUBSET {EngineKeys[i] : i \in DOMAIN EngineKeys}}

\* str.replace(old, new) for single characters.
replace(text, old, new) == [i \in DOMAIN text |-> IF text[i] = old THEN new ELSE text[i]]

\* Mutant of flag_for: the key is kept as it is.
flag_for_verbatim(key) == <<"-", "-">> \o key

\* `flag = f"--{key.replace('_', '-')}"`
flag_for(key) == <<"-", "-">> \o replace(key, "_", "-")

\* _dict_to_cli_args: a flag and a value token for every key, in order.
RECURSIVE dict_to_cli_args(_)
dict_to_cli_args(args) ==
    IF args = <<>> THEN <<>>
    ELSE <<flag_for(Head(args)), <<"v">>>> \o dict_to_cli_args(Tail(args))

\* The option strings parse_args declares with add_argument.
OptionStrings ==
    { <<"-", "-">> \o EngineKeys[i] : i \in DOMAIN EngineKeys }
    \cup { <<"-", "v">>, <<"-", "-", "v", "e", "r", "b", "o", "s", "e">> }

\* The options declared with required=True.
RequiredOptions == { <<"-", "-">> \o <<"o", "u", "t", "p", "u", "t", "_", "d", "i", "r">>, <<"-", "-">> \o <<"m", "e", "t", "a", "d", "a", "t", "a", "_", "f", "i", "l", "e">> }

IsFlag(token) == token # <<>> /\ Head(token) = "-"

\* argparse's resolution of a flag token: the option string equal to it, else
\* the only option string it abbreviates, else None.
resolve_option(token) ==
    IF token \in OptionStrings THEN Some(token)
    ELSE LET candidates == {o \in OptionStrings : IsPrefix(token, o)}
         IN IF Cardinality(candidates) = 1
            THEN Some(CHOOSE o \in candidates : TRUE)
            ELSE None

\* parser.parse_args(argv): an error (exit status 2) for a flag it does not
\* know or a required option that is missing.
parse_args(tokens) ==
    LET flags == {tokens[i] : i \in {j \in DOMAIN tokens : IsFlag(tokens[j])}}
        given == {resolve_option(f)[1] : f \in {g \in flags : resolve_option(g) # None}}
    IN IF \E f \in flags : resolve_option(f) = None THEN "error"
       ELSE IF ~(RequiredOptions \subseteq given) THEN "error"
       ELSE "ok"

\* run_stage builds the child's command line.
RenderArgs ==
    /\ argv = <<>>
    /\ parsed = None
    /\ stageArgs # <<>>
    /\ argv' = dict_to_cli_args(stageArgs)
    /\ UNCHANGED <<stageArgs, parsed>>
    /\ UNCHANGED <<orchVars, envVars, dataVars>>

\* The dataset engine parses its command line.
ParseArgs ==
    /\ parsed = None
    /\ argv # <<>> \/ stageArgs = <<>>
    /\ parsed' = Some(parse_args(argv))
    /\ UNCHANGED <<stageArgs, argv>>
    /\ UNCHANGED <<orchVars, envVars, dataVars>>

InitArgs ==
    /\ stageArgs \in ArgsInputs
    /\ argv = <<>>
    /\ parsed = None
    /\ OrchOff
    /\ EnvIdle
    /\ DataIdle

NextArgs ==
    \/ RenderArgs
    \/ ParseArgs

SpecArgs == InitArgs /\ [][NextArgs]_vars

----------------------------------------------------------------------------
(* Properties of the argument list *)

\* C30: every flag generated from an argument key of the dataset engine is a
\* flag its parser accepts, and a stage that gives the required keys passes
\* argument parsing.
C30_FlagsAccepted ==
    parsed # None =>
        /\ \A i \in DOMAIN argv : IsFlag(argv[i]) => resolve_option(argv[i]) # None
        /\ (\A r \in RequiredOptions :
               \E i \in DOMAIN stageArgs : <<"-", "-">> \o stageArgs[i] = r)
            => parsed = Some("ok")

====
